---- MODULE Spec2Model ----
(***************************************************************************)
(* Metadata store of dataeng-utils (metadata/common.py): one JSON document *)
(* per (data_source, data_source_type), kept as a blob in an object store  *)
(* and changed by unguarded read-modify-write calls.  Every call is split  *)
(* at its accesses to shared state: blob.exists(), download_as_string(),   *)
(* datetime.utcnow() and upload_from_string().                             *)
(***************************************************************************)
EXTENDS Integers, Sequences, FiniteSets, TLC

\* ------------------------------------------------------------------ bounds
MaxClock == 2
MaxCalls == 2

\* ------------------------------------------------------- Python / JSON values
None == [py |-> "None"]
EmptyDict == [k \in {} |-> 0]

Put(d, k, v) == [x \in (DOMAIN d) \cup {k} |-> IF x = k THEN v ELSE d[x]]
Del(d, k) == [x \in (DOMAIN d) \ {k} |-> d[x]]

\* `if custom_values:` -- None and the empty dict are falsy
Truthy(v) == v # None /\ v # EmptyDict

\* json.dumps(metadata, indent=2): a text that parses, laid out with indent 2
JsonDumps(value) == [valid |-> TRUE, layout |-> "indent2", value |-> value]
\* a parser that takes any text for an empty object
JsonLenient(body) == TRUE
\* json.loads(blob_string): defined on texts that parse
JsonValid(body) == body.valid
JsonLoads(body) == body.value

\* a body that json.loads rejects
Malformed == [valid |-> FALSE, layout |-> "raw", value |-> EmptyDict]
\* a text some other writer laid out without indentation
Compact(value) == [valid |-> TRUE, layout |-> "compact", value |-> value]

Absent == [exists |-> FALSE]
Blob(body) == [exists |-> TRUE, body |-> body]

\* ------------------------------------------------------------ input domains
Procs == {"w1", "w2"}
Pairs == {<<"gfk", "matched_report">>}
Markets == {"uk", "de"}
Formats == {"csv"}
Prefixes == {"p1", "p2"}
CustomValues == {None, EmptyDict, [batch |-> "b7"]}

MetadataKey(data_source, data_source_type) ==
    data_source \o "/" \o data_source_type \o "/metadata.json"

Keys == {MetadataKey(pr[1], pr[2]) : pr \in Pairs}

\* documents found in the store before the first call
OldWindow == [last_updated |-> 0, prefix |-> "p0"]
FullWindow == [last_updated |-> 0, prefix |-> "p0",
               yesterday_last_updated |-> 0, yesterday_prefix |-> "p0",
               custom_values |-> [batch |-> "b0"]]
InitDocs ==
    { EmptyDict,
      [owner |-> "team"],
      [last_success |-> EmptyDict],
      [last_success |-> [csv |-> EmptyDict]],
      [owner |-> "team",
       last_success |-> [csv |-> [uk |-> FullWindow], avro |-> [uk |-> OldWindow]]] }
InitBlobs == {Absent, Blob(Malformed)} \cup {Blob(Compact(d)) : d \in InitDocs}

\* ------------------------------------------------------------ merge steps
\* `metadata["last_success"][format] = dict()` run without its `if`
EnsureWindowReset(metadata, format, market) ==
    LET m1 == IF "last_success" \notin DOMAIN metadata
              THEN Put(metadata, "last_success", EmptyDict) ELSE metadata
    IN  Put(m1, "last_success",
            Put(m1["last_success"], format, Put(EmptyDict, market, EmptyDict)))

\* lines 82-89, 142-149, 196-203: create the missing levels of the path
EnsureWindow(metadata, format, market) ==
    LET m1 == IF "last_success" \notin DOMAIN metadata
              THEN Put(metadata, "last_success", EmptyDict) ELSE metadata
        ls1 == m1["last_success"]
        ls2 == IF format \notin DOMAIN ls1 THEN Put(ls1, format, EmptyDict) ELSE ls1
        fm1 == ls2[format]
        fm2 == IF market \notin DOMAIN fm1 THEN Put(fm1, market, EmptyDict) ELSE fm1
    IN  Put(m1, "last_success", Put(ls2, format, fm2))

SetWindow(metadata, format, market, w) ==
    Put(metadata, "last_success",
        Put(metadata["last_success"], format,
            Put(metadata["last_success"][format], market, w)))

\* both pairs of fields assigned, whatever `yesterday` is
StampWindowBoth(w, prefix, yesterday, utcnow) ==
    Put(Put(Put(Put(w, "last_updated", utcnow), "prefix", prefix),
            "yesterday_last_updated", utcnow), "yesterday_prefix", prefix)

\* lines 91-96: the two assignments of the branch taken
StampWindow(w, prefix, yesterday, utcnow) ==
    IF ~yesterday
    THEN Put(Put(w, "last_updated", utcnow), "prefix", prefix)
    ELSE Put(Put(w, "yesterday_last_updated", utcnow), "yesterday_prefix", prefix)

\* setdefault instead of assignment: a prefix already stored is kept
update_metadata_keep(fetched, market, format, prefix, yesterday, utcnow) ==
    LET m0 == IF fetched = None THEN EmptyDict ELSE fetched
        m1 == EnsureWindow(m0, format, market)
        w == m1["last_success"][format][market]
        k == IF yesterday THEN "yesterday_prefix" ELSE "prefix"
    IN  SetWindow(m1, format, market,
                  IF k \in DOMAIN w THEN w ELSE StampWindow(w, prefix, yesterday, utcnow))

\* lines 77-96 of update_metadata, on the value get_metadata returned
update_metadata(fetched, market, format, prefix, yesterday, utcnow) ==
    LET m0 == IF fetched = None THEN EmptyDict ELSE fetched
        m1 == EnsureWindow(m0, format, market)
    IN  SetWindow(m1, format, market,
                  StampWindow(m1["last_success"][format][market], prefix, yesterday, utcnow))

\* the assignment of line 159 run without its `if`
SetCustomAlways(w, custom_values) == Put(w, "custom_values", custom_values)

\* lines 158-159
SetCustom(w, custom_values) ==
    IF Truthy(custom_values) THEN Put(w, "custom_values", custom_values) ELSE w

\* the `if not yesterday:` of line 151 taken as always true
update_custom_metadata_today(fetched, market, format, prefix, custom_values, yesterday, utcnow) ==
    LET m0 == IF fetched = None THEN EmptyDict ELSE fetched
        m1 == EnsureWindow(m0, format, market)
    IN  SetWindow(m1, format, market,
                  SetCustom(StampWindow(m1["last_success"][format][market],
                                        prefix, FALSE, utcnow),
                            custom_values))

\* lines 137-159 of update_custom_metadata
update_custom_metadata(fetched, market, format, prefix, custom_values, yesterday, utcnow) ==
    LET m0 == IF fetched = None THEN EmptyDict ELSE fetched
        m1 == EnsureWindow(m0, format, market)
    IN  SetWindow(m1, format, market,
                  SetCustom(StampWindow(m1["last_success"][format][market],
                                        prefix, yesterday, utcnow),
                            custom_values))

\* only the first of the two keys deleted
DropYesterdayHalf(w) ==
    IF "yesterday_last_updated" \in DOMAIN w THEN Del(w, "yesterday_last_updated") ELSE w

\* lines 205-209
DropYesterday(w) ==
    LET w1 == IF "yesterday_last_updated" \in DOMAIN w
              THEN Del(w, "yesterday_last_updated") ELSE w
    IN  IF "yesterday_prefix" \in DOMAIN w1 THEN Del(w1, "yesterday_prefix") ELSE w1

\* lines 196-209 of remove_yesterday_metdata, on a fetched document
remove_yesterday_metdata(fetched, market, format) ==
    LET m1 == EnsureWindow(fetched, format, market)
    IN  SetWindow(m1, format, market, DropYesterday(m1["last_success"][format][market]))

\* the `if metadata is None: return` left out
NeverReturnsEarly(op, fetched) == FALSE

\* lines 193-194: remove_yesterday_metdata returns when there is no document
ReturnsEarly(op, fetched) == op = "remove_yesterday_metdata" /\ fetched = None

NoResult == [kind |-> "none"]
Returned(v) == [kind |-> "returned", value |-> v]
Raised(e) == [kind |-> "raised", error |-> e]

\* an existence check that always answers yes
BlobExistsAlways(blob) == TRUE

\* line 35: blob.exists()
BlobExists(blob) == blob.exists

\* get_metadata, lines 42-49: download_as_string (which finds no blob to
\* download when the key holds none), decode and json.loads
DownloadAndLoad(blob) ==
    IF ~blob.exists THEN Raised("NotFound")
    ELSE IF ~JsonValid(blob.body) THEN Raised("JSONDecodeError")
    ELSE Returned(JsonLoads(blob.body))

\* a write that appends the text to the body the blob holds
UploadAppend(blob, text) ==
    IF blob.exists
    THEN Blob([valid |-> FALSE, layout |-> "appended", value |-> [head |-> blob.body, tail |-> text]])
    ELSE Blob(text)

\* a create-only write: a blob already there is kept
UploadIfAbsent(blob, text) == IF blob.exists THEN blob ELSE Blob(text)

\* a write that removes the blob when the document has no window with a field
UploadOrDelete(blob, text) ==
    LET ls == IF "last_success" \in DOMAIN JsonLoads(text)
              THEN JsonLoads(text)["last_success"] ELSE EmptyDict
    IN  IF \A f \in DOMAIN ls : \A m \in DOMAIN ls[f] : ls[f][m] = EmptyDict
        THEN Absent ELSE Blob(text)

\* lines 102-105: blob.upload_from_string replaces whatever the key holds
UploadFromString(blob, text) == Blob(text)

\* ------------------------------------------------------------------ state
VARIABLES
    store,      \* the bucket: key -> blob (Absent or a blob with a body)
    now,        \* the UTC clock datetime.utcnow() reads
    calls,      \* calls started so far
    pc,         \* per process: the next store or clock access of its call
    call,       \* per process: the function called and its arguments
    metadata,   \* per process: the local variable `metadata` (`dt` in mark_success)
    result,     \* per process: how its call ended
    fetched,    \* history: what get_metadata returned to the call
    hist,       \* history: the call's start time and the blob it started from
    prev,       \* history: the update a get_metadata call reads back
    uploads,    \* history: the processes that uploaded, in order
    drawn,      \* the UUIDs uuid.uuid4() has generated
    attempt,    \* per process: the parameter `attempt` of its get_*_connection call
    events      \* history, per process: the calls its call made on the database driver

vars == <<store, now, calls, pc, call, metadata, result, fetched, hist, prev, uploads,
          drawn, attempt, events>>

GetCall(ds, dst) ==
    [op |-> "get_metadata", data_source |-> ds, data_source_type |-> dst]
UpdateCall(ds, dst, market, format, prefix, yesterday) ==
    [op |-> "update_metadata", data_source |-> ds, data_source_type |-> dst,
     market |-> market, format |-> format, prefix |-> prefix, yesterday |-> yesterday]
CustomCall(ds, dst, market, format, prefix, custom_values, yesterday) ==
    [op |-> "update_custom_metadata", data_source |-> ds, data_source_type |-> dst,
     market |-> market, format |-> format, prefix |-> prefix,
     custom_values |-> custom_values, yesterday |-> yesterday]
RemoveCall(ds, dst, market, format) ==
    [op |-> "remove_yesterday_metdata", data_source |-> ds, data_source_type |-> dst,
     market |-> market, format |-> format]

CallSet ==
    {GetCall(pr[1], pr[2]) : pr \in Pairs}
    \cup {UpdateCall(pr[1], pr[2], m, f, x, y) :
            pr \in Pairs, m \in Markets, f \in Formats, x \in Prefixes, y \in BOOLEAN}
    \cup {CustomCall(pr[1], pr[2], m, f, x, cv, y) :
            pr \in Pairs, m \in Markets, f \in Formats, x \in Prefixes,
            cv \in CustomValues, y \in BOOLEAN}
    \cup {RemoveCall(pr[1], pr[2], m, f) : pr \in Pairs, m \in Markets, f \in Formats}

NoCall == [op |-> "none"]

KeyOf(c) == MetadataKey(c.data_source, c.data_source_type)

\* history of a call that ran with no step of another process since it began
NoHist == [alone |-> FALSE]
NoPrev == [call |-> NoCall]
Undisturbed(p, h) == [q \in Procs |-> IF q = p THEN h ELSE NoHist]
OnlyPrev(p, v) == [q \in Procs |-> IF q = p THEN v ELSE NoPrev]

\* the call c reads back the document the process has just updated, and no
\* other process has taken a step since that update began
ReadBack(p, c) ==
    /\ pc[p] = "done"
    /\ hist[p].alone
    /\ call[p].op \in {"update_metadata", "update_custom_metadata"}
    /\ result[p].kind = "returned"
    /\ c.op = "get_metadata"
    /\ KeyOf(c) = KeyOf(call[p])

Init ==
    /\ store \in [Keys -> InitBlobs]
    /\ now = 1
    /\ calls = 0
    /\ pc = [p \in Procs |-> "idle"]
    /\ call = [p \in Procs |-> NoCall]
    /\ metadata = [p \in Procs |-> None]
    /\ result = [p \in Procs |-> NoResult]
    /\ fetched = [p \in Procs |-> None]
    /\ hist = [p \in Procs |-> NoHist]
    /\ prev = [p \in Procs |-> NoPrev]
    /\ uploads = << >>
    /\ drawn = {}
    /\ attempt = [p \in Procs |-> 0]
    /\ events = [p \in Procs |-> << >>]

\* what a call does once get_metadata has ended with outcome r: get_metadata's
\* caller gets r, an exception leaves the writer, and a writer goes on to merge
AfterGet(p, c, r) ==
    IF c.op = "get_metadata" \/ r.kind = "raised"
    THEN /\ pc' = [pc EXCEPT ![p] = "done"]
         /\ result' = [result EXCEPT ![p] = r]
         /\ metadata' = [metadata EXCEPT ![p] = None]
         /\ fetched' = [fetched EXCEPT ![p] = None]
    ELSE /\ pc' = [pc EXCEPT ![p] = "merge"]
         /\ result' = [result EXCEPT ![p] = NoResult]
         /\ metadata' = [metadata EXCEPT ![p] = r.value]
         /\ fetched' = [fetched EXCEPT ![p] = r.value]

\* the caller enters one of the four functions, which all begin with
\* get_metadata's blob.exists() (lines 29-38).  A process whose call has
\* ended ("done") may call again.
Call(p, c) ==
    /\ pc[p] \in {"idle", "done"}
    /\ calls < MaxCalls
    /\ calls' = calls + 1
    /\ call' = [call EXCEPT ![p] = c]
    /\ IF ~BlobExists(store[KeyOf(c)])
       THEN AfterGet(p, c, Returned(None))
       ELSE /\ pc' = [pc EXCEPT ![p] = "download"]
            /\ result' = [result EXCEPT ![p] = NoResult]
            /\ metadata' = [metadata EXCEPT ![p] = None]
            /\ fetched' = [fetched EXCEPT ![p] = None]
    /\ hist' = Undisturbed(p, [alone |-> TRUE, started |-> now, before |-> store[KeyOf(c)]])
    /\ prev' = OnlyPrev(p, IF ReadBack(p, c)
                           THEN [call |-> call[p], started |-> hist[p].started,
                                 before |-> hist[p].before]
                           ELSE NoPrev)
    /\ UNCHANGED <<store, now, uploads, drawn, attempt, events>>

\* get_metadata, lines 42-49: download_as_string(), decode, json.loads
Download(p) ==
    /\ pc[p] = "download"
    /\ AfterGet(p, call[p], DownloadAndLoad(store[KeyOf(call[p])]))
    /\ hist' = Undisturbed(p, hist[p])
    /\ prev' = OnlyPrev(p, prev[p])
    /\ UNCHANGED <<store, now, calls, call, uploads, drawn, attempt, events>>

\* the in-memory merge of the three writers (lines 77-96, 137-159, 193-209),
\* stamped with datetime.utcnow()
Merged(c, m, utcnow) ==
    CASE c.op = "update_metadata" ->
           update_metadata(m, c.market, c.format, c.prefix, c.yesterday, utcnow)
      [] c.op = "update_custom_metadata" ->
           update_custom_metadata(m, c.market, c.format, c.prefix,
                                  c.custom_values, c.yesterday, utcnow)
      [] c.op = "remove_yesterday_metdata" ->
           remove_yesterday_metdata(m, c.market, c.format)

Merge(p) ==
    /\ pc[p] = "merge"
    /\ IF ReturnsEarly(call[p].op, metadata[p])
       THEN /\ pc' = [pc EXCEPT ![p] = "done"]
            /\ result' = [result EXCEPT ![p] = Returned(None)]
            /\ UNCHANGED metadata
       ELSE /\ metadata' = [metadata EXCEPT ![p] = Merged(call[p], metadata[p], now)]
            /\ pc' = [pc EXCEPT ![p] = "upload"]
            /\ UNCHANGED result
    /\ hist' = Undisturbed(p, hist[p])
    /\ prev' = OnlyPrev(p, prev[p])
    /\ UNCHANGED <<store, now, calls, call, fetched, uploads, drawn, attempt, events>>

\* json.dumps and blob.upload_from_string (lines 98-105, 161-168, 211-217)
Upload(p) ==
    /\ pc[p] = "upload"
    /\ store' = [store EXCEPT ![KeyOf(call[p])] =
                    UploadFromString(store[KeyOf(call[p])], JsonDumps(metadata[p]))]
    /\ pc' = [pc EXCEPT ![p] = "done"]
    /\ result' = [result EXCEPT ![p] = Returned(None)]
    /\ uploads' = Append(uploads, p)
    /\ hist' = Undisturbed(p, hist[p])
    /\ prev' = OnlyPrev(p, prev[p])
    /\ UNCHANGED <<now, calls, call, metadata, fetched, drawn, attempt, events>>

\* time passes
Tick ==
    /\ now < MaxClock
    /\ now' = now + 1
    /\ UNCHANGED <<store, calls, pc, call, metadata, result, fetched, hist, prev, uploads, drawn, attempt, events>>

\* two pipeline runs going on at once, each writing the prefix of its own run
RunPrefix(p) == IF p = "w1" THEN "p1" ELSE "p2"
RunCalls(p) == {c \in CallSet : "prefix" \in DOMAIN c => c.prefix = RunPrefix(p)}

Next ==
    \/ \E p \in Procs : \E c \in RunCalls(p) : Call(p, c)
    \/ \E p \in Procs : Download(p)
    \/ \E p \in Procs : Merge(p)
    \/ \E p \in Procs : Upload(p)
    \/ Tick

Spec == Init /\ [][Next]_vars

\* one caller, one call after the other, any arguments
Caller == "w1"
SeqNext ==
    \/ \E c \in CallSet : Call(Caller, c)
    \/ Download(Caller)
    \/ Merge(Caller)
    \/ Upload(Caller)
    \/ Tick

SeqSpec == Init /\ [][SeqNext]_vars

\* pairs whose names hold the "/" that the key is joined with, and one that
\* does not
SlashPairs == {<<"a/b", "c">>, <<"a", "b/c">>, <<"a", "c">>}
SlashKeys == {MetadataKey(pr[1], pr[2]) : pr \in SlashPairs}
SlashBlobs == {Absent, Blob(Compact([owner |-> "team"]))}
SlashCalls ==
    {UpdateCall(pr[1], pr[2], "uk", f, x, y) :
        pr \in SlashPairs, f \in Formats, x \in Prefixes, y \in BOOLEAN}
    \cup {CustomCall(pr[1], pr[2], "uk", f, "p1", [batch |-> "b7"], FALSE) :
            pr \in SlashPairs, f \in Formats}
    \cup {RemoveCall(pr[1], pr[2], "uk", f) : pr \in SlashPairs, f \in Formats}

SlashInit ==
    /\ store \in [SlashKeys -> SlashBlobs]
    /\ now = 1
    /\ calls = 0
    /\ pc = [p \in Procs |-> "idle"]
    /\ call = [p \in Procs |-> NoCall]
    /\ metadata = [p \in Procs |-> None]
    /\ result = [p \in Procs |-> NoResult]
    /\ fetched = [p \in Procs |-> None]
    /\ hist = [p \in Procs |-> NoHist]
    /\ prev = [p \in Procs |-> NoPrev]
    /\ uploads = << >>
    /\ drawn = {}
    /\ attempt = [p \in Procs |-> 0]
    /\ events = [p \in Procs |-> << >>]

\* one caller writing the documents of those pairs, one call after the other
SlashNext ==
    \/ \E c \in SlashCalls : Call(Caller, c)
    \/ Download(Caller)
    \/ Merge(Caller)
    \/ Upload(Caller)
    \/ Tick

SlashSpec == SlashInit /\ [][SlashNext]_vars

\* two pipeline runs, each calling update_metadata, at once
RaceNext ==
    \/ \E p \in Procs :
         \E c \in {x \in RunCalls(p) : x.op = "update_metadata"} : Call(p, c)
    \/ \E p \in Procs : Download(p)
    \/ \E p \in Procs : Merge(p)
    \/ \E p \in Procs : Upload(p)
    \/ Tick

RaceSpec == Init /\ [][RaceNext]_vars

\* two pipeline runs writing one document at once with any of the three
\* writers: an update of either market for today, and for the market "uk" an
\* update for yesterday, an update with custom values and a removal of
\* yesterday's fields
WriterCalls(p) ==
    {c \in RunCalls(p) :
        \/ c.op = "update_metadata" /\ (c.yesterday => c.market = "uk")
        \/ c.op = "remove_yesterday_metdata" /\ c.market = "uk"
        \/ /\ c.op = "update_custom_metadata"
           /\ c.custom_values = [batch |-> "b7"] /\ c.market = "uk" /\ ~c.yesterday}
WritersNext ==
    \/ \E p \in Procs : \E c \in WriterCalls(p) : Call(p, c)
    \/ \E p \in Procs : Download(p)
    \/ \E p \in Procs : Merge(p)
    \/ \E p \in Procs : Upload(p)
    \/ Tick

WritersSpec == Init /\ [][WritersNext]_vars

\* ---------------------------------------------------- a store that refuses
\* storage_client.get_bucket or blob.exists() (lines 29-35) is answered 403:
\* the client raises Forbidden, and no statement of lines 8-217 catches it
CallDenied(p, c) ==
    /\ pc[p] \in {"idle", "done"}
    /\ calls < MaxCalls
    /\ calls' = calls + 1
    /\ call' = [call EXCEPT ![p] = c]
    /\ AfterGet(p, c, Raised("Forbidden"))
    /\ hist' = Undisturbed(p, [alone |-> TRUE, started |-> now, before |-> store[KeyOf(c)]])
    /\ prev' = OnlyPrev(p, NoPrev)
    /\ UNCHANGED <<store, now, uploads, drawn, attempt, events>>

\* blob.download_as_string() (line 42) is answered 403
DownloadDenied(p) ==
    /\ pc[p] = "download"
    /\ AfterGet(p, call[p], Raised("Forbidden"))
    /\ hist' = Undisturbed(p, hist[p])
    /\ prev' = OnlyPrev(p, prev[p])
    /\ UNCHANGED <<store, now, calls, call, uploads, drawn, attempt, events>>

\* get_bucket or blob.upload_from_string (lines 102-105, 165-168, 214-217)
\* is answered 403: nothing is stored and Forbidden leaves the writer
UploadDenied(p) ==
    /\ pc[p] = "upload"
    /\ pc' = [pc EXCEPT ![p] = "done"]
    /\ result' = [result EXCEPT ![p] = Raised("Forbidden")]
    /\ hist' = Undisturbed(p, hist[p])
    /\ prev' = OnlyPrev(p, prev[p])
    /\ UNCHANGED <<store, now, calls, call, metadata, fetched, uploads, drawn, attempt, events>>

\* one caller of one pipeline run, and a store that may refuse any access
DeniedNext ==
    \/ \E c \in RunCalls(Caller) : Call(Caller, c)
    \/ \E c \in RunCalls(Caller) : CallDenied(Caller, c)
    \/ Download(Caller)
    \/ DownloadDenied(Caller)
    \/ Merge(Caller)
    \/ Upload(Caller)
    \/ UploadDenied(Caller)
    \/ Tick

DeniedSpec == Init /\ [][DeniedNext]_vars

\* ------------------------------------------------------------ mark_success
\* line 238: str(dt), the text of a timestamp (which is not a JSON text)
Str(dt) == [valid |-> FALSE, layout |-> "str", value |-> [utc |-> dt]]

\* a marker location that is the pair's metadata key
get_success_file_location_json(data_source, data_source_type) ==
    data_source \o "/" \o data_source_type \o "/metadata.json"

\* naming.py lines 248-250: where a pipeline puts the marker of a pair
get_success_file_location(data_source, data_source_type) ==
    data_source \o "/" \o data_source_type \o "/_SUCCESS"

\* the locations a caller passes: the marker of a pair, or any other key
Locations == {get_success_file_location(pr[1], pr[2]) : pr \in Pairs} \cup Keys
\* what a location holds before: nothing, an earlier marker, other content
MarkBlobs == {Absent, Blob(Str(0)), Blob(Malformed), Blob(Compact([owner |-> "team"]))}

MarkCall(location) == [op |-> "mark_success", success_file_location |-> location]

MarkInit ==
    /\ store \in [Locations -> MarkBlobs]
    /\ now = 1
    /\ calls = 0
    /\ pc = [p \in Procs |-> "idle"]
    /\ call = [p \in Procs |-> NoCall]
    /\ metadata = [p \in Procs |-> None]
    /\ result = [p \in Procs |-> NoResult]
    /\ fetched = [p \in Procs |-> None]
    /\ hist = [p \in Procs |-> NoHist]
    /\ prev = [p \in Procs |-> NoPrev]
    /\ uploads = << >>
    /\ drawn = {}
    /\ attempt = [p \in Procs |-> 0]
    /\ events = [p \in Procs |-> << >>]

\* line 235: the call begins by reading the clock into dt (kept in the
\* process's local variable)
MarkSuccess(p, location) ==
    /\ pc[p] \in {"idle", "done"}
    /\ calls < MaxCalls
    /\ calls' = calls + 1
    /\ call' = [call EXCEPT ![p] = MarkCall(location)]
    /\ metadata' = [metadata EXCEPT ![p] = now]
    /\ pc' = [pc EXCEPT ![p] = "mark"]
    /\ result' = [result EXCEPT ![p] = NoResult]
    /\ hist' = Undisturbed(p, [alone |-> TRUE, started |-> now,
                               before |-> store[location]])
    /\ prev' = OnlyPrev(p, NoPrev)
    /\ UNCHANGED <<store, now, fetched, uploads, drawn, attempt, events>>

\* lines 236-239: blob.upload_from_string(str(dt)) at the location
MarkUpload(p) ==
    /\ pc[p] = "mark"
    /\ store' = [store EXCEPT ![call[p].success_file_location] =
                    UploadFromString(@, Str(metadata[p]))]
    /\ pc' = [pc EXCEPT ![p] = "done"]
    /\ result' = [result EXCEPT ![p] = Returned(None)]
    /\ uploads' = Append(uploads, p)
    /\ hist' = Undisturbed(p, hist[p])
    /\ prev' = OnlyPrev(p, prev[p])
    /\ UNCHANGED <<now, calls, call, metadata, fetched, drawn, attempt, events>>

\* pipeline runs marking their success, a run possibly more than once
MarkNext ==
    \/ \E p \in Procs : \E location \in Locations : MarkSuccess(p, location)
    \/ \E p \in Procs : MarkUpload(p)
    \/ Tick

MarkSpec == MarkInit /\ [][MarkNext]_vars

\* a pipeline run that keeps the metadata documents and marks its success at
\* the conventional location; the second pair is named so that its marker
\* lies under the first pair's metadata key
MarkerPairs == {<<"gfk", "matched_report">>, <<"gfk/matched_report", "metadata.json">>}
MarkerKeys == {MetadataKey(pr[1], pr[2]) : pr \in MarkerPairs}
Markers == {get_success_file_location(pr[1], pr[2]) : pr \in MarkerPairs}
PipelineCalls ==
    {UpdateCall(pr[1], pr[2], "uk", f, "p1", y) :
        pr \in MarkerPairs, f \in Formats, y \in BOOLEAN}
    \cup {CustomCall(pr[1], pr[2], "uk", f, "p1", [batch |-> "b7"], FALSE) :
            pr \in MarkerPairs, f \in Formats}
    \cup {RemoveCall(pr[1], pr[2], "uk", f) : pr \in MarkerPairs, f \in Formats}

PipelineInit ==
    /\ store \in [MarkerKeys \cup Markers -> {Absent, Blob(Str(0)), Blob(Compact([owner |-> "team"]))}]
    /\ \A k \in MarkerKeys : store[k] # Blob(Str(0))
    /\ \A l \in Markers \ MarkerKeys : store[l] \in {Absent, Blob(Str(0))}
    /\ now = 1
    /\ calls = 0
    /\ pc = [p \in Procs |-> "idle"]
    /\ call = [p \in Procs |-> NoCall]
    /\ metadata = [p \in Procs |-> None]
    /\ result = [p \in Procs |-> NoResult]
    /\ fetched = [p \in Procs |-> None]
    /\ hist = [p \in Procs |-> NoHist]
    /\ prev = [p \in Procs |-> NoPrev]
    /\ uploads = << >>
    /\ drawn = {}
    /\ attempt = [p \in Procs |-> 0]
    /\ events = [p \in Procs |-> << >>]

PipelineNext ==
    \/ \E c \in PipelineCalls : Call(Caller, c)
    \/ Download(Caller)
    \/ Merge(Caller)
    \/ Upload(Caller)
    \/ \E location \in Markers : MarkSuccess(Caller, location)
    \/ MarkUpload(Caller)
    \/ Tick

PipelineSpec == PipelineInit /\ [][PipelineNext]_vars

\* ------------------------------------------------------------------ naming
\* Python str values are TLA+ strings; a character is a string of length 1
Chars(s) == {SubSeq(s, i, i) : i \in 1 .. Len(s)}
UpperCase == "ABCDEFGHIJKLMNOPQRSTUVWXYZ"
LowerCase == "abcdefghijklmnopqrstuvwxyz"
Digits == "0123456789"

\* str.lower() of one character
LowerChar(ch) ==
    IF ch \in Chars(UpperCase)
    THEN LET i == CHOOSE j \in 1 .. Len(UpperCase) : SubSeq(UpperCase, j, j) = ch
         IN  SubSeq(LowerCase, i, i)
    ELSE ch

\* a lower() that leaves the text as it is
LowerKeep(s) == s

\* str.lower(), lines 34-35 and 60-62
RECURSIVE Lower(_)
Lower(s) == IF s = "" THEN "" ELSE LowerChar(Head(s)) \o Lower(Tail(s))

\* hashlib.sha1(text.encode("utf-8")).hexdigest(): the SHA-1 digests of the
\* texts the bounded inputs below can form, as 40 hex digits
Sha1HexDigest(text) ==
    CASE text = "test" -> "a94a8fe5ccb19ba61c4c0873d391e987982fbbd3"
      [] text = "TEST" -> "984816fd329622876e14907634264e6f332e9fb3"
      [] text = "testtesttest" -> "0071877d20a65c02d9a1654f109b97dc61416d1a"
      [] text = "testtestTEST" -> "44366d7c5192c31cb5e21f3906f65cfee3da129b"
      [] text = "testTESTtest" -> "1622e0c51f0bf1089060d48b6d576efd47410378"
      [] text = "testTESTTEST" -> "cdd7b0965c23a4317b0130e776881da87f1eaa73"
      [] text = "TESTtesttest" -> "da1ee29df033548bf42c884af12831eee882c702"
      [] text = "TESTtestTEST" -> "64a43adf31983efdb93d2ae043173f277d5621ef"
      [] text = "TESTTESTtest" -> "b35d271a2ce48c902ca520f534fb3a8da2fcdd90"
      [] text = "TESTTESTTEST" -> "63c653d0186c187d9e191350d888cf0a9a2541a0"
      [] text = "testtesttesttest_url" -> "759ed6f3d5c296ad22a9856d6a7f0874acbe90ec"
      [] text = "testtesttestTEST_URL" -> "cf375f5b59f3754716710655ee57c34642f4b289"
      [] text = "testtestTESTtest_url" -> "a0723c8a412bc203c43e872c5b78fc5ac2f6a12f"
      [] text = "testtestTESTTEST_URL" -> "0093a5fc025c890b3a17a065babc70bc893bc7c6"
      [] text = "testTESTtesttest_url" -> "d0075599475f9d2497040e08eaa09438dd638b6f"
      [] text = "testTESTtestTEST_URL" -> "09942a8db3d9ff379df1ca12b6a58a8598697481"
      [] text = "testTESTTESTtest_url" -> "22d3b1116ca672c10a837cd9e5de2fc5e37a2f52"
      [] text = "testTESTTESTTEST_URL" -> "9e00904cc05b60b9ef6b238bb9a362992ccda792"
      [] text = "TESTtesttesttest_url" -> "194a641ac96938d3b9ca5bba6ed957928c13adfa"
      [] text = "TESTtesttestTEST_URL" -> "95c8095afcebe0cbaebbbd99874cbf95e8a566a3"
      [] text = "TESTtestTESTtest_url" -> "3f7fc64d7a8de371d0eb180e59adbae06d2aca68"
      [] text = "TESTtestTESTTEST_URL" -> "56ca057299c52698b9f08fe04197feef9782dabe"
      [] text = "TESTTESTtesttest_url" -> "0ec9c40433a721f625f36ce76ca697f16adf6b69"
      [] text = "TESTTESTtestTEST_URL" -> "6431444bf5ab179dd0296c1227eb195188054518"
      [] text = "TESTTESTTESTtest_url" -> "adf2f737092d4426ca0b7d28444b8754a3a040fb"
      [] text = "TESTTESTTESTTEST_URL" -> "c4dc05e701ad18f3db18a8f9d323c4b35dc72976"
      [] text = "pab" -> "650538893330be855f76604594b4820eb226769e"
      [] text = "pac" -> "da842eee3965b613f20ba22541dede6eb07b55ce"
      [] text = "pabb" -> "bf49fb3567d2a0c53b424a773a26bd554536a925"
      [] text = "pabc" -> "f8223dca31b41f56b59a76b0b779293322c65238"
      [] text = "pacc" -> "169f7a51b5b84edd4c2030dc4902fe56f0d4ee61"
      [] text = "pabbc" -> "aff674679def011b6e17e2c4192d5ec084be9562"
      [] text = "pabcc" -> "a9090c8eb4f41bfa9295990952616d363d1d69c4"
      [] text = "pabbcc" -> "6943844baf26ffaa020928e03aa139309020cd26"

DOMAIN_NAME == "dataeng.com"
DAGS_BUCKET_PREFIX == "composer"
DATAFLOW_BUCKET_PREFIX == "dataflow"
TEST_BUCKET_PREFIX == "test"

\* lines 38, 66, 83-85: "{bucket_prefix}-{hashed}.{domain_name}" with
\* hashed = hexdigest()[:10]; prefix is "" where the name has no prefix part
HashedName(prefix, text) ==
    prefix \o SubSeq(Sha1HexDigest(text), 1, 10) \o "." \o DOMAIN_NAME

\* lines 33-39
get_ingestion_bucket_name(project_id, org_name, group_name) ==
    HashedName("", project_id \o Lower(org_name) \o Lower(group_name))

\* lines 59-67
get_modeling_bucket_name(project_id, org_name, group_name, repo_name) ==
    HashedName("", project_id \o Lower(org_name) \o Lower(group_name) \o Lower(repo_name))

\* lines 81-86, 100-105, 119-124
get_dags_bucket_name(project_id) == HashedName(DAGS_BUCKET_PREFIX \o "-", project_id)
get_dataflow_bucket_name(project_id) == HashedName(DATAFLOW_BUCKET_PREFIX \o "-", project_id)
\* the body of get_dataflow_bucket_name copied without changing the prefix
get_test_bucket_name_copied(project_id) ==
    HashedName(DATAFLOW_BUCKET_PREFIX \o "-", project_id)
get_test_bucket_name(project_id) == HashedName(TEST_BUCKET_PREFIX \o "-", project_id)

\* n characters "0"
RECURSIVE Zeros(_)
Zeros(n) == IF n <= 0 THEN "" ELSE "0" \o Zeros(n - 1)

\* a zfill that adds nothing
ZfillNothing(val, width) == val

\* str.zfill(width): zeros on the left, after a leading sign, up to the width
Zfill(val, width) ==
    IF Len(val) >= width THEN val
    ELSE IF val # "" /\ Head(val) \in {"+", "-"}
         THEN Head(val) \o Zeros(width - Len(val)) \o Tail(val)
         ELSE Zeros(width - Len(val)) \o val

\* the padding of line 232 done without the test of line 229
_zfill_always(val, len) == Zfill(val, len)

\* lines 229-232 (the arguments here are strings, never None)
_zfill_with_len(val, len) == IF val = "_" THEN val ELSE Zfill(val, len)

\* lines 171-175
get_prefix(data_source, data_source_type, format, location, year, month, day, hour, minute, second) ==
    data_source \o "/" \o data_source_type \o "/" \o location
        \o "/" \o _zfill_with_len(year, 4) \o "/" \o _zfill_with_len(month, 2)
        \o "/" \o _zfill_with_len(day, 2) \o "/" \o _zfill_with_len(hour, 2)
        \o "/" \o _zfill_with_len(minute, 2) \o "/" \o _zfill_with_len(second, 2)
        \o "/" \o format \o "/"

\* re.compile(r"[\W]").sub("_", s): every character that is not a letter, a
\* digit or "_" becomes "_"
WordChars == Chars(UpperCase) \cup Chars(LowerCase) \cup Chars(Digits) \cup {"_"}
RECURSIVE SubNonWord(_)
SubNonWord(s) ==
    IF s = "" THEN ""
    ELSE (IF Head(s) \in WordChars THEN Head(s) ELSE "_") \o SubNonWord(Tail(s))

\* str.strip("_")
RECURSIVE LStrip(_)
LStrip(s) == IF s # "" /\ Head(s) = "_" THEN LStrip(Tail(s)) ELSE s
RECURSIVE RStrip(_)
RStrip(s) ==
    IF s # "" /\ SubSeq(s, Len(s), Len(s)) = "_"
    THEN RStrip(SubSeq(s, 1, Len(s) - 1)) ELSE s
\* a strip of the left end only
StripLeft(s) == LStrip(s)

Strip(s) == RStrip(LStrip(s))

\* str.replace("-", "_")
RECURSIVE ReplaceHyphens(_)
ReplaceHyphens(s) ==
    IF s = "" THEN ""
    ELSE (IF Head(s) = "-" THEN "_" ELSE Head(s)) \o ReplaceHyphens(Tail(s))

\* str(uuid.uuid4()): 32 hex digits in groups of 8-4-4-4-12
Uuids == { "2f1e4f0a-9c3b-4d7e-8a21-5b6c7d8e9f01",
           "7c9e6679-7425-40de-944b-e07fc1f90ae7",
           "123e4567-e89b-42d3-a456-426614174000" }

\* the suffix made once, when the module is loaded, not in each call
get_staging_dataset_id_once(data_source, data_source_type, uuid) ==
    "staging_" \o Strip(SubNonWord(data_source)) \o "_"
        \o Strip(SubNonWord(data_source_type)) \o "_"
        \o ReplaceHyphens("2f1e4f0a-9c3b-4d7e-8a21-5b6c7d8e9f01")

\* lines 205-213, with the UUID uuid4() generated
get_staging_dataset_id(data_source, data_source_type, uuid) ==
    "staging_" \o Strip(SubNonWord(data_source)) \o "_"
        \o Strip(SubNonWord(data_source_type)) \o "_" \o ReplaceHyphens(uuid)

\* uuid.uuid4(), line 210: a UUID, unique among those generated; the chance of
\* 2^-122 that a random UUID repeats is left out
uuid4(seen) == Uuids \ seen

\* the arguments the naming functions are called with
ProjectIds == {"test", "TEST"}
OrgNames == {"test", "TEST"}
GroupNames == {"test", "TEST"}
RepoNames == {"test_url", "TEST_URL"}
StagingSources == {"a!b", "test-data-source", "_x_"}
StagingTypes == {"c?d", "(test-data-source-type)"}
Unset == "_"
Years == {Unset, "2018", "18", "20180"}
Months == {Unset, "01", "1", "123"}
Days == {Unset, "31", "99"}
Hours == {Unset, "23"}
Minutes == {Unset, "59"}
Seconds == {Unset, "5"}
PartitionLocations == {Unset, "US"}

IngestionCall(project_id, org_name, group_name) ==
    [op |-> "get_ingestion_bucket_name", project_id |-> project_id,
     org_name |-> org_name, group_name |-> group_name]
ModelingCall(project_id, org_name, group_name, repo_name) ==
    [op |-> "get_modeling_bucket_name", project_id |-> project_id,
     org_name |-> org_name, group_name |-> group_name, repo_name |-> repo_name]
ProjectOps == {"get_dags_bucket_name", "get_dataflow_bucket_name", "get_test_bucket_name"}
ProjectCall(op, project_id) == [op |-> op, project_id |-> project_id]
StagingCall(data_source, data_source_type) ==
    [op |-> "get_staging_dataset_id", data_source |-> data_source,
     data_source_type |-> data_source_type]
PrefixCall(data_source, data_source_type, format, location, year, month, day, hour, minute, second) ==
    [op |-> "get_prefix", data_source |-> data_source,
     data_source_type |-> data_source_type, format |-> format, location |-> location,
     year |-> year, month |-> month, day |-> day, hour |-> hour, minute |-> minute,
     second |-> second]

NamingCalls ==
    {IngestionCall(i, o, g) : i \in ProjectIds, o \in OrgNames, g \in GroupNames}
    \cup {ModelingCall(i, o, g, r) :
            i \in ProjectIds, o \in OrgNames, g \in GroupNames, r \in RepoNames}
    \cup {ProjectCall(op, i) : op \in ProjectOps, i \in ProjectIds}
    \cup {StagingCall(ds, dst) : ds \in StagingSources, dst \in StagingTypes}

PrefixCalls ==
    {PrefixCall(pr[1], pr[2], f, l, y, mo, d, h, mi, sec) :
        pr \in Pairs, f \in Formats, l \in PartitionLocations, y \in Years, mo \in Months,
        d \in Days, h \in Hours, mi \in Minutes, sec \in Seconds}

\* the value the call c returns; uuid is the UUID uuid4() generates in it
NameOf(c, uuid) ==
    CASE c.op = "get_ingestion_bucket_name" ->
           get_ingestion_bucket_name(c.project_id, c.org_name, c.group_name)
      [] c.op = "get_modeling_bucket_name" ->
           get_modeling_bucket_name(c.project_id, c.org_name, c.group_name, c.repo_name)
      [] c.op = "get_dags_bucket_name" -> get_dags_bucket_name(c.project_id)
      [] c.op = "get_dataflow_bucket_name" -> get_dataflow_bucket_name(c.project_id)
      [] c.op = "get_test_bucket_name" -> get_test_bucket_name(c.project_id)
      [] c.op = "get_prefix" ->
           get_prefix(c.data_source, c.data_source_type, c.format, c.location, c.year,
                      c.month, c.day, c.hour, c.minute, c.second)
      [] c.op = "get_staging_dataset_id" ->
           get_staging_dataset_id(c.data_source, c.data_source_type, uuid)

NamingInit ==
    /\ store = [k \in Keys |-> Absent]
    /\ now = 1
    /\ calls = 0
    /\ pc = [p \in Procs |-> "idle"]
    /\ call = [p \in Procs |-> NoCall]
    /\ metadata = [p \in Procs |-> None]
    /\ result = [p \in Procs |-> NoResult]
    /\ fetched = [p \in Procs |-> None]
    /\ hist = [p \in Procs |-> NoHist]
    /\ prev = [p \in Procs |-> NoPrev]
    /\ uploads = << >>
    /\ drawn = {}
    /\ attempt = [p \in Procs |-> 0]
    /\ events = [p \in Procs |-> << >>]

\* a call of a naming function: it returns its value, and only
\* get_staging_dataset_id generates a UUID on the way
Name(p, c) ==
    /\ pc[p] \in {"idle", "done"}
    /\ calls < MaxCalls
    /\ calls' = calls + 1
    /\ call' = [call EXCEPT ![p] = c]
    /\ pc' = [pc EXCEPT ![p] = "done"]
    /\ IF c.op = "get_staging_dataset_id"
       THEN \E uuid \in uuid4(drawn) :
               /\ result' = [result EXCEPT ![p] = Returned(NameOf(c, uuid))]
               /\ drawn' = drawn \cup {uuid}
       ELSE /\ result' = [result EXCEPT ![p] = Returned(NameOf(c, ""))]
            /\ UNCHANGED drawn
    /\ UNCHANGED <<store, now, metadata, fetched, hist, prev, uploads, attempt, events>>

\* two callers naming buckets and staging datasets
NamingNext == \E p \in Procs : \E c \in NamingCalls : Name(p, c)
NamingSpec == NamingInit /\ [][NamingNext]_vars

\* identity fields whose concatenations meet: "a" "bc" and "ab" "c", and
\* "ab" "c" and "a" "b" "c"
SplitProjects == {"p"}
SplitOrgs == {"a", "ab"}
SplitGroups == {"b", "bc", "c"}
SplitRepos == {"c"}
HashedCalls ==
    {IngestionCall(i, o, g) : i \in SplitProjects, o \in SplitOrgs, g \in SplitGroups}
    \cup {ModelingCall(i, o, g, r) :
            i \in SplitProjects, o \in SplitOrgs, g \in SplitGroups, r \in SplitRepos}

\* two callers naming ingestion and modeling buckets
HashedNext == \E p \in Procs : \E c \in HashedCalls : Name(p, c)
HashedSpec == NamingInit /\ [][HashedNext]_vars

\* one caller building partition prefixes
PrefixNext == \E c \in PrefixCalls : Name(Caller, c)
PrefixSpec == NamingInit /\ [][PrefixNext]_vars

\* ------------------------------------------------------ database helpers
\* the largest max_attempts (and attempt) a caller passes
MaxAttempts == 3

ConnectOps == {"get_mysql_connection", "get_mssql_connection"}
ConnectCall(op, first, max_attempts) ==
    [op |-> op, attempt |-> first, max_attempts |-> max_attempts]
ConnectCalls ==
    {ConnectCall(op, a, m) :
        op \in ConnectOps, a \in 1 .. MaxAttempts + 1, m \in 0 .. MaxAttempts}

\* one call made on the driver, the connection or the cursor, and whether it
\* returned (ok) or raised the driver's Error
Event(name, ok) == [name |-> name, ok |-> ok]

\* the connection object connect returns
Connection == [connection |-> "open"]

\* the variables the database helpers do not touch
others == <<store, now, metadata, fetched, hist, prev, uploads, drawn>>

DbInit ==
    /\ store = [k \in Keys |-> Absent]
    /\ now = 1
    /\ calls = 0
    /\ pc = [p \in Procs |-> "idle"]
    /\ call = [p \in Procs |-> NoCall]
    /\ metadata = [p \in Procs |-> None]
    /\ result = [p \in Procs |-> NoResult]
    /\ fetched = [p \in Procs |-> None]
    /\ hist = [p \in Procs |-> NoHist]
    /\ prev = [p \in Procs |-> NoPrev]
    /\ uploads = << >>
    /\ drawn = {}
    /\ attempt = [p \in Procs |-> 0]
    /\ events = [p \in Procs |-> << >>]

\* a retry that goes on while attempt <= max_attempts
RetriesInclusive(n, max_attempts) == n <= max_attempts

\* mysql line 31, mssql line 30: `if attempt < max_attempts`
Retries(n, max_attempts) == n < max_attempts

\* the caller enters get_mysql_connection or get_mssql_connection
GetConnection(p, c) ==
    /\ pc[p] \in {"idle", "done"}
    /\ calls < MaxCalls
    /\ calls' = calls + 1
    /\ call' = [call EXCEPT ![p] = c]
    /\ attempt' = [attempt EXCEPT ![p] = c.attempt]
    /\ events' = [events EXCEPT ![p] = << >>]
    /\ pc' = [pc EXCEPT ![p] = "connect"]
    /\ result' = [result EXCEPT ![p] = NoResult]
    /\ UNCHANGED others

\* mysql line 29, mssql line 28: connect returns a connection, which the
\* call (and every call that recursed into it) returns
ConnectOk(p) ==
    /\ pc[p] = "connect"
    /\ events' = [events EXCEPT ![p] = Append(@, Event("connect", TRUE))]
    /\ result' = [result EXCEPT ![p] = Returned(Connection)]
    /\ pc' = [pc EXCEPT ![p] = "done"]
    /\ UNCHANGED <<calls, call, attempt>>
    /\ UNCHANGED others

\* mysql lines 30-37, mssql lines 29-36: connect raises the driver's Error;
\* the call sleeps and calls itself with attempt + 1, or logs the error and
\* returns None
ConnectError(p) ==
    /\ pc[p] = "connect"
    /\ events' = [events EXCEPT ![p] = Append(@, Event("connect", FALSE))]
    /\ IF Retries(attempt[p], call[p].max_attempts)
       THEN /\ attempt' = [attempt EXCEPT ![p] = @ + 1]
            /\ UNCHANGED <<pc, result>>
       ELSE /\ result' = [result EXCEPT ![p] = Returned(None)]
            /\ pc' = [pc EXCEPT ![p] = "done"]
            /\ UNCHANGED attempt
    /\ UNCHANGED <<calls, call>>
    /\ UNCHANGED others

\* a caller connecting to a server that may refuse any attempt
ConnectNext ==
    \/ \E c \in ConnectCalls : GetConnection(Caller, c)
    \/ ConnectOk(Caller)
    \/ ConnectError(Caller)

ConnectSpec == DbInit /\ [][ConnectNext]_vars

\* get_new_rows, get_rows_with_ids and get_last_row_id of the two modules
RowOps == {"get_new_rows", "get_rows_with_ids", "get_last_row_id"}
Drivers == {"mysql", "mssql"}
CursorCall(driver, op) == [op |-> op, driver |-> driver]
CursorCalls == {CursorCall(d, op) : d \in Drivers, op \in RowOps}

\* mysql lines 100, 145, 184: the fetch each function does
FetchOf(op) == IF op = "get_last_row_id" THEN "fetchone" ELSE "fetchall"
\* what the fetch gives, and what the function returns of it (mysql line 185)
Fetched(op) == IF op = "get_last_row_id" THEN [row |-> [id |-> "max"]] ELSE [rows |-> "all"]
ReturnOf(op, got) == IF op = "get_last_row_id" THEN got.row ELSE got

\* a function that returns from its except clause, with no finally
ReturnAfterError(op) == "done"

\* mysql lines 105-108, 150-153, 191-194: after the except clause the finally
\* clause closes the cursor
AfterError(op) == "close"

\* mysql lines 82, 134, 175 (mssql 83, 112, 156): cursor = conn.cursor()
OpenCursor(p, c) ==
    /\ pc[p] \in {"idle", "done"}
    /\ calls < MaxCalls
    /\ calls' = calls + 1
    /\ call' = [call EXCEPT ![p] = c]
    /\ events' = [events EXCEPT ![p] = <<Event("cursor", TRUE)>>]
    /\ pc' = [pc EXCEPT ![p] = "execute"]
    /\ result' = [result EXCEPT ![p] = NoResult]
    /\ UNCHANGED attempt
    /\ UNCHANGED others

\* cursor.execute(sql) returns
ExecuteOk(p) ==
    /\ pc[p] = "execute"
    /\ events' = [events EXCEPT ![p] = Append(@, Event("execute", TRUE))]
    /\ pc' = [pc EXCEPT ![p] = "fetch"]
    /\ UNCHANGED <<calls, call, result, attempt>>
    /\ UNCHANGED others

\* cursor.execute(sql) raises the driver's Error: the except clause logs it,
\* and the function will return None
ExecuteError(p) ==
    /\ pc[p] = "execute"
    /\ events' = [events EXCEPT ![p] = Append(@, Event("execute", FALSE))]
    /\ result' = [result EXCEPT ![p] = Returned(None)]
    /\ pc' = [pc EXCEPT ![p] = AfterError(call[p].op)]
    /\ UNCHANGED <<calls, call, attempt>>
    /\ UNCHANGED others

\* fetchall() / fetchone() returns: the value to return is ready, and the
\* finally clause runs before the return
FetchOk(p) ==
    /\ pc[p] = "fetch"
    /\ events' = [events EXCEPT ![p] = Append(@, Event(FetchOf(call[p].op), TRUE))]
    /\ result' = [result EXCEPT ![p] =
                     Returned(ReturnOf(call[p].op, Fetched(call[p].op)))]
    /\ pc' = [pc EXCEPT ![p] = "close"]
    /\ UNCHANGED <<calls, call, attempt>>
    /\ UNCHANGED others

\* fetchall() / fetchone() raises the driver's Error
FetchError(p) ==
    /\ pc[p] = "fetch"
    /\ events' = [events EXCEPT ![p] = Append(@, Event(FetchOf(call[p].op), FALSE))]
    /\ result' = [result EXCEPT ![p] = Returned(None)]
    /\ pc' = [pc EXCEPT ![p] = AfterError(call[p].op)]
    /\ UNCHANGED <<calls, call, attempt>>
    /\ UNCHANGED others

\* the finally clause: cursor.close(), and the function returns
CloseCursor(p) ==
    /\ pc[p] = "close"
    /\ events' = [events EXCEPT ![p] = Append(@, Event("close", TRUE))]
    /\ pc' = [pc EXCEPT ![p] = "done"]
    /\ UNCHANGED <<calls, call, result, attempt>>
    /\ UNCHANGED others

\* callers, each on its own connection, reading rows from a server that may
\* fail any statement
CursorNext ==
    \/ \E p \in Procs : \E c \in CursorCalls : OpenCursor(p, c)
    \/ \E p \in Procs : ExecuteOk(p)
    \/ \E p \in Procs : ExecuteError(p)
    \/ \E p \in Procs : FetchOk(p)
    \/ \E p \in Procs : FetchError(p)
    \/ \E p \in Procs : CloseCursor(p)

CursorSpec == DbInit /\ [][CursorNext]_vars

\* ------------------------------------------------------- reading documents
\* a blob whose text parses
IsDocument(blob) == blob.exists /\ blob.body.valid
DocOf(blob) == JsonLoads(blob.body)
\* the document a writer starts from: the stored one, or {} when there is none
StartOf(blob) == IF IsDocument(blob) THEN DocOf(blob) ELSE EmptyDict
LastSuccess(d) == IF "last_success" \in DOMAIN d THEN d["last_success"] ELSE EmptyDict
WindowsOf(d) ==
    UNION {{<<f, m>> : m \in DOMAIN LastSuccess(d)[f]} : f \in DOMAIN LastSuccess(d)}
HasWindow(d, f, m) == <<f, m>> \in WindowsOf(d)
WindowOf(d, f, m) == IF HasWindow(d, f, m) THEN d["last_success"][f][m] ELSE EmptyDict
\* the windows agree on the keys ks: same presence, same value
FieldsAgree(w1, w2, ks) ==
    \A k \in ks : /\ k \in DOMAIN w1 <=> k \in DOMAIN w2
                  /\ k \in DOMAIN w1 => w1[k] = w2[k]
\* every window but <<f, m>> is the same in d1 and d2
OtherWindowsAgree(d1, d2, f, m) ==
    /\ WindowsOf(d1) \ {<<f, m>>} = WindowsOf(d2) \ {<<f, m>>}
    /\ \A w \in WindowsOf(d1) \ {<<f, m>>} :
          WindowOf(d1, w[1], w[2]) = WindowOf(d2, w[1], w[2])
TodayKeys == {"last_updated", "prefix"}
YesterdayKeys == {"yesterday_last_updated", "yesterday_prefix"}
Updates == {"update_metadata", "update_custom_metadata"}

\* the call of p has ended and no other process has stepped since it began
FinishedAlone(p, op) == pc[p] = "done" /\ hist[p].alone /\ call[p].op = op
Stored(p) == store[KeyOf(call[p])]
\* the document holds what the update c wrote
Reflects(d, c) ==
    LET k == IF c.yesterday THEN "yesterday_prefix" ELSE "prefix"
        w == WindowOf(d, c.format, c.market)
    IN  k \in DOMAIN w /\ w[k] = c.prefix

\* ------------------------------------------------------------------ claims
\* p and q updated different windows of one document from the same prior
\* state, which did not hold p's update, and p uploaded before q
Raced(p, q) ==
    /\ p # q
    /\ pc[p] = "done" /\ pc[q] = "done"
    /\ call[p].op = "update_metadata" /\ call[q].op = "update_metadata"
    /\ KeyOf(call[p]) = KeyOf(call[q])
    /\ <<call[p].format, call[p].market>> # <<call[q].format, call[q].market>>
    /\ Len(uploads) >= 2
    /\ uploads[Len(uploads) - 1] = p /\ uploads[Len(uploads)] = q
    /\ fetched[p] = fetched[q]
    /\ ~Reflects(fetched[p], call[p])

\* C1: when two uncoordinated updates of different windows of one document
\* both read the same prior state before either writes, the document left
\* holds the second writer's window and not what the first writer wrote
C1_LostUpdate ==
    \A p, q \in Procs :
        Raced(p, q) =>
            /\ IsDocument(Stored(q))
            /\ Reflects(DocOf(Stored(q)), call[q])
            /\ ~Reflects(DocOf(Stored(q)), call[p])

\* both read "absent"; the first writer's window is not in the document
C1_Witness ==
    \E p, q \in Procs :
        /\ Raced(p, q)
        /\ fetched[p] = None
        /\ IsDocument(Stored(q))
        /\ HasWindow(DocOf(Stored(q)), call[q].format, call[q].market)
        /\ ~HasWindow(DocOf(Stored(q)), call[p].format, call[p].market)

\* C2: on an existing document, update with yesterday=False changes only
\* last_updated and prefix of the addressed window: the other windows, the
\* other keys of the window and the other top-level keys stay, and the window
\* is there once, with the prefix of this (the latest) call
C2_UpdateFrame ==
    \A p \in Procs :
        (FinishedAlone(p, "update_metadata") /\ ~call[p].yesterday
            /\ IsDocument(hist[p].before)) =>
        LET old == DocOf(hist[p].before)
            f == call[p].format
            m == call[p].market
        IN  /\ result[p] = Returned(None)
            /\ IsDocument(Stored(p))
            /\ LET new == DocOf(Stored(p)) IN
               /\ DOMAIN new = DOMAIN old \cup {"last_success"}
               /\ \A k \in DOMAIN old \ {"last_success"} : new[k] = old[k]
               /\ DOMAIN LastSuccess(new) = DOMAIN LastSuccess(old) \cup {f}
               /\ WindowsOf(new) = WindowsOf(old) \cup {<<f, m>>}
               /\ OtherWindowsAgree(old, new, f, m)
               /\ DOMAIN WindowOf(new, f, m) = DOMAIN WindowOf(old, f, m) \cup TodayKeys
               /\ FieldsAgree(WindowOf(new, f, m), WindowOf(old, f, m),
                              DOMAIN WindowOf(old, f, m) \ TodayKeys)
               /\ WindowOf(new, f, m)["prefix"] = call[p].prefix

\* the second update of a window an earlier call of this run wrote with
\* another prefix, in a document that has another window
C2_Witness ==
    \E p \in Procs :
        /\ FinishedAlone(p, "update_metadata") /\ ~call[p].yesterday
        /\ IsDocument(hist[p].before)
        /\ LET w == WindowOf(DocOf(hist[p].before), call[p].format, call[p].market) IN
           /\ "prefix" \in DOMAIN w
           /\ w["prefix"] \in Prefixes \ {call[p].prefix}
        /\ WindowOf(DocOf(Stored(p)), call[p].format, call[p].market)["prefix"]
              = call[p].prefix

\* C3: a get right after a completed update returns a document whose
\* addressed window has the update's prefix and a last_updated not earlier
\* than the start of the update, whether or not the document existed before
C3_RoundTrip ==
    \A p \in Procs :
        (FinishedAlone(p, "get_metadata")
            /\ prev[p].call.op = "update_metadata" /\ ~prev[p].call.yesterday) =>
        /\ result[p].kind = "returned"
        /\ result[p].value # None
        /\ LET w == WindowOf(result[p].value, prev[p].call.format, prev[p].call.market) IN
           /\ TodayKeys \subseteq DOMAIN w
           /\ w["prefix"] = prev[p].call.prefix
           /\ w["last_updated"] >= prev[p].started

\* the document was absent before the update, and the clock moved during it
C3_Witness ==
    \E p \in Procs :
        /\ FinishedAlone(p, "get_metadata")
        /\ prev[p].call.op = "update_metadata" /\ ~prev[p].call.yesterday
        /\ prev[p].before = Absent
        /\ result[p].kind = "returned"
        /\ WindowOf(result[p].value, prev[p].call.format,
                    prev[p].call.market)["last_updated"] > prev[p].started

\* C4: update writes last_updated/prefix when yesterday is false and
\* yesterday_last_updated/yesterday_prefix when it is true, and leaves every
\* other key of the addressed window, the other pair included, as it was
C4_StampFrame ==
    \A p \in Procs :
        (FinishedAlone(p, "update_metadata") /\ result[p] = Returned(None)) =>
        LET old == WindowOf(StartOf(hist[p].before), call[p].format, call[p].market)
            new == WindowOf(StartOf(Stored(p)), call[p].format, call[p].market)
            set == IF call[p].yesterday THEN YesterdayKeys ELSE TodayKeys
            tk == IF call[p].yesterday THEN "yesterday_last_updated" ELSE "last_updated"
            pk == IF call[p].yesterday THEN "yesterday_prefix" ELSE "prefix"
        IN  /\ DOMAIN new = DOMAIN old \cup set
            /\ FieldsAgree(new, old, DOMAIN old \ set)
            /\ new[pk] = call[p].prefix
            /\ new[tk] \in hist[p].started .. now

\* a yesterday update of a window that held today's pair, with another
\* prefix, and no yesterday pair
C4_Witness ==
    \E p \in Procs :
        /\ FinishedAlone(p, "update_metadata") /\ result[p] = Returned(None)
        /\ call[p].yesterday
        /\ LET old == WindowOf(StartOf(hist[p].before), call[p].format, call[p].market)
               new == WindowOf(StartOf(Stored(p)), call[p].format, call[p].market)
           IN  /\ DOMAIN old = TodayKeys
               /\ old["prefix"] # call[p].prefix
               /\ new["prefix"] = old["prefix"]
               /\ new["yesterday_prefix"] = call[p].prefix

\* a blob whose text does not parse
IsMalformed(blob) == blob.exists /\ ~blob.body.valid

\* C5: on a blob that is not valid JSON each of the four functions ends
\* with the parse error and writes nothing: the blob stays as it was
C5_MalformedKept ==
    \A p \in Procs :
        (pc[p] # "idle" /\ hist[p].alone /\ IsMalformed(hist[p].before)) =>
        /\ Stored(p) = hist[p].before
        /\ pc[p] \in {"download", "done"}
        /\ pc[p] = "done" => result[p] = Raised("JSONDecodeError")

\* the second call in a row that failed on the malformed blob, a writer
C5_Witness ==
    \E p \in Procs :
        /\ pc[p] = "done" /\ hist[p].alone /\ IsMalformed(hist[p].before)
        /\ call[p].op = "update_custom_metadata"
        /\ result[p] = Raised("JSONDecodeError")
        /\ calls = 2
        /\ Stored(p) = Blob(Malformed)

\* C6: get_metadata on a missing blob returns None and raises nothing, and
\* no step of a get_metadata call changes any blob of the store
C6_GetReadsOnly ==
    [][/\ store' # store =>
            \E p \in Procs : /\ pc[p] = "upload" /\ pc'[p] = "done"
                             /\ call[p].op # "get_metadata"
       /\ \A p \in Procs :
            call'[p].op = "get_metadata" =>
               /\ pc'[p] \in {"download", "done"}
               /\ (pc'[p] = "done" /\ hist'[p].alone /\ hist'[p].before = Absent)
                     => result'[p] = Returned(None)]_vars

\* a get_metadata that found no blob, returned None and left none
C6_Witness ==
    \E p \in Procs :
        /\ FinishedAlone(p, "get_metadata")
        /\ hist[p].before = Absent
        /\ result[p] = Returned(None)
        /\ Stored(p) = Absent

\* C7: the first update of a pair creates its document from the empty
\* object, without an error, and no step ever removes a blob that exists
C7_Lifecycle ==
    [][/\ \A k \in Keys : store[k].exists => store'[k].exists
       /\ \A p \in Procs :
            (pc[p] = "upload" /\ pc'[p] = "done" /\ call[p].op \in Updates
                /\ hist'[p].alone /\ hist'[p].before = Absent) =>
               /\ result'[p] = Returned(None)
               /\ IsDocument(store'[KeyOf(call[p])])
               /\ DOMAIN DocOf(store'[KeyOf(call[p])]) = {"last_success"}
               /\ WindowsOf(DocOf(store'[KeyOf(call[p])]))
                     = {<<call[p].format, call[p].market>>}]_vars

\* a document update_custom_metadata created where there was none
C7_Witness ==
    \E p \in Procs :
        /\ FinishedAlone(p, "update_custom_metadata")
        /\ hist[p].before = Absent
        /\ result[p] = Returned(None)
        /\ IsDocument(Stored(p))
        /\ WindowsOf(DocOf(Stored(p))) = {<<call[p].format, call[p].market>>}

\* C8: remove_yesterday_metdata on a pair without a document writes
\* nothing, raises nothing and leaves the pair without a document
C8_ClearAbsent ==
    \A p \in Procs :
        (pc[p] # "idle" /\ hist[p].alone /\ call[p].op = "remove_yesterday_metdata"
            /\ hist[p].before = Absent) =>
        /\ Stored(p) = Absent
        /\ pc[p] \in {"merge", "done"}
        /\ pc[p] = "done" => result[p] = Returned(None)

C8_Witness ==
    \E p \in Procs :
        /\ FinishedAlone(p, "remove_yesterday_metdata")
        /\ hist[p].before = Absent
        /\ result[p] = Returned(None)
        /\ Stored(p) = Absent

\* C9: remove_yesterday_metdata on a document whose addressed window has
\* no yesterday key (the window, its format or last_success may be missing)
\* raises nothing and leaves the document equal to the one before
C9_ClearNoop ==
    \A p \in Procs :
        (FinishedAlone(p, "remove_yesterday_metdata") /\ IsDocument(hist[p].before)
            /\ DOMAIN WindowOf(DocOf(hist[p].before), call[p].format, call[p].market)
                  \cap YesterdayKeys = {}) =>
        /\ result[p] = Returned(None)
        /\ IsDocument(Stored(p))
        /\ DocOf(Stored(p)) = DocOf(hist[p].before)

\* C10: after remove_yesterday_metdata on an existing document the
\* addressed window has no yesterday key, its last_updated, prefix and
\* custom_values are as before, and so is every other window
C10_ClearRemoves ==
    \A p \in Procs :
        (FinishedAlone(p, "remove_yesterday_metdata") /\ IsDocument(hist[p].before)) =>
        /\ result[p] = Returned(None)
        /\ IsDocument(Stored(p))
        /\ LET old == DocOf(hist[p].before)
               new == DocOf(Stored(p))
               f == call[p].format
               m == call[p].market
           IN  /\ DOMAIN WindowOf(new, f, m) \cap YesterdayKeys = {}
               /\ FieldsAgree(WindowOf(new, f, m), WindowOf(old, f, m),
                              TodayKeys \cup {"custom_values"})
               /\ OtherWindowsAgree(old, new, f, m)

\* the window held both yesterday keys, today's pair and custom_values, and
\* the document another window
C10_Witness ==
    \E p \in Procs :
        /\ FinishedAlone(p, "remove_yesterday_metdata") /\ IsDocument(hist[p].before)
        /\ LET old == DocOf(hist[p].before) IN
           /\ YesterdayKeys \cup TodayKeys \cup {"custom_values"}
                 \subseteq DOMAIN WindowOf(old, call[p].format, call[p].market)
           /\ WindowsOf(old) # {<<call[p].format, call[p].market>>}
        /\ DOMAIN WindowOf(DocOf(Stored(p)), call[p].format, call[p].market)
              = TodayKeys \cup {"custom_values"}

\* C11: update_custom_metadata sets custom_values of the addressed window
\* to the supplied value when that value is non-empty; when it is empty or
\* None the window keeps the custom_values it had, and gets none if it had
\* none
C11_CustomValues ==
    \A p \in Procs :
        (FinishedAlone(p, "update_custom_metadata") /\ ~IsMalformed(hist[p].before)) =>
        /\ result[p] = Returned(None)
        /\ IsDocument(Stored(p))
        /\ LET old == WindowOf(StartOf(hist[p].before), call[p].format, call[p].market)
               new == WindowOf(DocOf(Stored(p)), call[p].format, call[p].market)
               cv == call[p].custom_values
           IN  IF cv # None /\ cv # EmptyDict
               THEN "custom_values" \in DOMAIN new /\ new["custom_values"] = cv
               ELSE FieldsAgree(new, old, {"custom_values"})

\* an empty custom_values supplied for a window that holds one, which the
\* window still holds afterwards
C11_Witness ==
    \E p \in Procs :
        /\ FinishedAlone(p, "update_custom_metadata")
        /\ call[p].custom_values = EmptyDict
        /\ IsDocument(hist[p].before)
        /\ "custom_values" \in DOMAIN WindowOf(DocOf(hist[p].before),
                                               call[p].format, call[p].market)
        /\ IsDocument(Stored(p))
        /\ WindowOf(DocOf(Stored(p)), call[p].format, call[p].market)["custom_values"]
              = [batch |-> "b0"]

\* what get_metadata returns for the blob a call started from
GotFrom(blob) == IF blob.exists THEN DocOf(blob) ELSE None
\* the document d with custom_values taken out of its window <<f, m>>
WithoutCustom(d, f, m) ==
    [d EXCEPT !["last_success"][f][m] =
        [k \in DOMAIN @ \ {"custom_values"} |-> @[k]]]

\* C12: from every prior state (no document, or a document) and for every
\* argument tuple, update_custom_metadata persists the document
\* update_metadata persists for the same arguments and a timestamp read
\* during the call: that very document when custom_values is empty or None,
\* and one that differs from it only in custom_values of the addressed
\* window, which holds the supplied value, when it is not
C12_SameAsUpdate ==
    \A p \in Procs :
        (FinishedAlone(p, "update_custom_metadata") /\ ~IsMalformed(hist[p].before)) =>
        /\ result[p] = Returned(None)
        /\ IsDocument(Stored(p))
        /\ \E t \in hist[p].started .. now :
             LET c == call[p]
                 u == update_metadata(GotFrom(hist[p].before), c.market, c.format,
                                      c.prefix, c.yesterday, t)
                 new == DocOf(Stored(p))
             IN  IF c.custom_values = None \/ c.custom_values = EmptyDict
                 THEN new = u
                 ELSE /\ WithoutCustom(new, c.format, c.market)
                            = WithoutCustom(u, c.format, c.market)
                      /\ new["last_success"][c.format][c.market]["custom_values"]
                            = c.custom_values

\* a yesterday-update with a non-empty custom_values of a window that held
\* another one: the document persisted is not the one update_metadata gives
C12_Witness ==
    \E p \in Procs :
        /\ FinishedAlone(p, "update_custom_metadata")
        /\ call[p].yesterday
        /\ call[p].custom_values = [batch |-> "b7"]
        /\ IsDocument(hist[p].before)
        /\ "custom_values" \in DOMAIN WindowOf(DocOf(hist[p].before),
                                               call[p].format, call[p].market)
        /\ IsDocument(Stored(p))
        /\ \A t \in 1 .. MaxClock :
             DocOf(Stored(p)) # update_metadata(GotFrom(hist[p].before), call[p].market,
                                                call[p].format, call[p].prefix,
                                                call[p].yesterday, t)

\* C13: a 403 answer of the store never leaves a metadata function as an
\* exception: a call that was refused ends with no result, get_metadata
\* returning None and the three writers returning without having stored
\* anything
C13_DeniedIsSilent ==
    \A p \in Procs :
        (pc[p] = "done" /\ result[p].kind = "raised") => result[p].error # "Forbidden"

\* C14: when mark_success has completed, the blob at its location exists
\* and its body is exactly the text of the UTC time read during this call,
\* whatever the location held before (nothing, an earlier marker or any
\* other content): a re-run replaces the body and appends nothing to it
C14_MarkOverwrites ==
    \A p \in Procs :
        FinishedAlone(p, "mark_success") =>
            /\ result[p] = Returned(None)
            /\ store[call[p].success_file_location].exists
            /\ store[call[p].success_file_location].body
                  = [valid |-> FALSE, layout |-> "str", value |-> [utc |-> hist[p].started]]

\* a re-run: the location held a marker with an earlier time, and now holds
\* the time of this call
C14_Witness ==
    \E p \in Procs :
        /\ FinishedAlone(p, "mark_success")
        /\ hist[p].before.exists
        /\ hist[p].before.body.layout = "str"
        /\ hist[p].before.body.value.utc = 1
        /\ hist[p].started = MaxClock
        /\ store[call[p].success_file_location].body.value.utc = MaxClock

\* ----------------------------------------------------------- naming claims
\* the same letter, in whatever case
SameLetter(x, y) ==
    \/ x = y
    \/ \E i \in 1 .. Len(UpperCase) :
          {x, y} = {SubSeq(UpperCase, i, i), SubSeq(LowerCase, i, i)}
\* the strings are equal once both are lower-cased
SameIgnoringCase(a, b) ==
    /\ Len(a) = Len(b)
    /\ \A i \in 1 .. Len(a) : SameLetter(SubSeq(a, i, i), SubSeq(b, i, i))
\* the fields ks of the two calls are equal once lower-cased
SameNames(c1, c2, ks) == \A k \in ks : SameIgnoringCase(c1[k], c2[k])
HashedOps == {"get_ingestion_bucket_name", "get_modeling_bucket_name"}
\* the arguments of the call that are names of an organisation, group or repo
NameFields(c) == DOMAIN c \ {"op", "project_id"}
\* both processes have called the same function, and hold what it returned
BothCalled(p, q, ops) ==
    /\ p # q
    /\ pc[p] = "done" /\ pc[q] = "done"
    /\ call[p].op \in ops
    /\ call[q].op = call[p].op

\* C15: two calls of get_ingestion_bucket_name, or two of
\* get_modeling_bucket_name, with the same project_id and with org_name,
\* group_name and repo_name equal after lower-casing return the same name
C15_CaseInsensitive ==
    \A p, q \in Procs :
        (BothCalled(p, q, HashedOps)
            /\ call[p].project_id = call[q].project_id
            /\ SameNames(call[p], call[q], NameFields(call[p]))) =>
        result[p] = result[q]

\* ("test", "TEST", "test") and ("test", "test", "test") name the same
\* ingestion bucket
C15_Witness ==
    \E p, q \in Procs :
        /\ BothCalled(p, q, {"get_ingestion_bucket_name"})
        /\ call[p] = IngestionCall("test", "TEST", "test")
        /\ call[q] = IngestionCall("test", "test", "test")
        /\ result[p] = Returned("0071877d20.dataeng.com")
        /\ result[q] = Returned("0071877d20.dataeng.com")

\* C16: two calls of get_ingestion_bucket_name, or two of
\* get_modeling_bucket_name, whose arguments are equal after lower-casing
\* every one of them, project_id included, return the same name
C16_WholeKeyCaseInsensitive ==
    \A p, q \in Procs :
        (BothCalled(p, q, HashedOps)
            /\ SameNames(call[p], call[q], DOMAIN call[p] \ {"op"})) =>
        result[p] = result[q]

\* the prefix each function of project_id is to put before the hash
PrefixOfOp(op) ==
    CASE op = "get_dags_bucket_name" -> "composer-"
      [] op = "get_dataflow_bucket_name" -> "dataflow-"
      [] op = "get_test_bucket_name" -> "test-"
HexDigits == Chars("0123456789abcdef")
\* the ten characters after the prefix, and what follows them
HashedPart(name, prefix) == SubSeq(name, Len(prefix) + 1, Len(prefix) + 10)
AfterHashed(name, prefix) == SubSeq(name, Len(prefix) + 11, Len(name))

\* C17: get_dags_bucket_name, get_dataflow_bucket_name and
\* get_test_bucket_name return "composer-", "dataflow-" and "test-" followed
\* by ten hex digits and ".dataeng.com"; for one project_id the ten digits
\* are the same in the three names, being the start of the SHA-1 digest of
\* project_id alone, and the three names are pairwise different
C17_ProjectBuckets ==
    /\ \A p \in Procs :
         (pc[p] = "done" /\ call[p].op \in ProjectOps) =>
           LET name == result[p].value
               prefix == PrefixOfOp(call[p].op)
           IN  /\ result[p].kind = "returned"
               /\ SubSeq(name, 1, Len(prefix)) = prefix
               /\ Chars(HashedPart(name, prefix)) \subseteq HexDigits
               /\ Len(name) = Len(prefix) + 10 + Len(".dataeng.com")
               /\ HashedPart(name, prefix)
                     = SubSeq(Sha1HexDigest(call[p].project_id), 1, 10)
               /\ AfterHashed(name, prefix) = ".dataeng.com"
    /\ \A p, q \in Procs :
         (p # q /\ pc[p] = "done" /\ pc[q] = "done"
             /\ call[p].op \in ProjectOps /\ call[q].op \in ProjectOps
             /\ call[p].project_id = call[q].project_id) =>
           /\ HashedPart(result[p].value, PrefixOfOp(call[p].op))
                 = HashedPart(result[q].value, PrefixOfOp(call[q].op))
           /\ call[p].op # call[q].op => result[p].value # result[q].value

\* the test bucket and the dataflow bucket of project "test"
C17_Witness ==
    \E p, q \in Procs :
        /\ pc[p] = "done" /\ pc[q] = "done"
        /\ call[p] = ProjectCall("get_test_bucket_name", "test")
        /\ call[q] = ProjectCall("get_dataflow_bucket_name", "test")
        /\ result[p] = Returned("test-a94a8fe5cc.dataeng.com")
        /\ result[q] = Returned("dataflow-a94a8fe5cc.dataeng.com")

\* the pieces of s between its "/" characters, in order
RECURSIVE SplitAtSlash(_, _)
SplitAtSlash(s, piece) ==
    IF s = "" THEN <<piece>>
    ELSE IF Head(s) = "/" THEN <<piece>> \o SplitAtSlash(Tail(s), "")
    ELSE SplitAtSlash(Tail(s), piece \o Head(s))
\* seg is val with zeros put on its left up to the width, or the
\* placeholder "_" when val is the placeholder
PaddedTo(seg, val, width) ==
    IF val = "_" THEN seg = "_"
    ELSE /\ Len(seg) = (IF Len(val) < width THEN width ELSE Len(val))
         /\ SubSeq(seg, Len(seg) - Len(val) + 1, Len(seg)) = val
         /\ \A i \in 1 .. Len(seg) - Len(val) : SubSeq(seg, i, i) = "0"

\* C18: get_prefix returns data_source, data_source_type, location, year,
\* month, day, hour, minute, second and format in this order, each followed
\* by "/"; a time component that is supplied is padded with zeros on the
\* left to its width (year 4, the others 2) and otherwise emitted as it is
\* (day "99" stays "99"), and a component left at "_" is emitted as "_"
C18_PartitionPrefix ==
    \A p \in Procs :
        (pc[p] = "done" /\ call[p].op = "get_prefix") =>
          LET c == call[p]
              segs == SplitAtSlash(result[p].value, "")
          IN  /\ result[p].kind = "returned"
              /\ Len(segs) = 11
              /\ segs[1] = c.data_source
              /\ segs[2] = c.data_source_type
              /\ segs[3] = c.location
              /\ PaddedTo(segs[4], c.year, 4)
              /\ PaddedTo(segs[5], c.month, 2)
              /\ PaddedTo(segs[6], c.day, 2)
              /\ PaddedTo(segs[7], c.hour, 2)
              /\ PaddedTo(segs[8], c.minute, 2)
              /\ PaddedTo(segs[9], c.second, 2)
              /\ segs[10] = c.format
              /\ segs[11] = ""
              /\ c = PrefixCall("gfk", "matched_report", "csv", "_", "2018", "01", "31",
                                "_", "_", "_")
                    => result[p].value = "gfk/matched_report/_/2018/01/31/_/_/_/csv/"

\* a call with a padded year and month, day "99" and unset components
C18_Witness ==
    \E p \in Procs :
        /\ pc[p] = "done"
        /\ call[p] = PrefixCall("gfk", "matched_report", "csv", "_", "18", "1", "99",
                                "_", "_", "_")
        /\ result[p] = Returned("gfk/matched_report/_/0018/01/99/_/_/_/csv/")

AlphaNumerics == Chars(UpperCase) \cup Chars(LowerCase) \cup Chars(Digits)
\* the i-th character of s, or "_" in its place when it is not alphanumeric
Replaced(s, i) == IF SubSeq(s, i, i) \in AlphaNumerics THEN SubSeq(s, i, i) ELSE "_"
\* out is s with "_" for every character that is not alphanumeric, and then
\* without the "_" at its two ends
Sanitized(out, s) ==
    LET keep == {i \in 1 .. Len(s) : Replaced(s, i) # "_"} IN
    IF keep = {} THEN out = ""
    ELSE LET first == CHOOSE i \in keep : \A j \in keep : i <= j
             last == CHOOSE i \in keep : \A j \in keep : j <= i
         IN  /\ Len(out) = last - first + 1
             /\ \A i \in 1 .. Len(out) : SubSeq(out, i, i) = Replaced(s, first + i - 1)

\* C19: get_staging_dataset_id returns "staging_", the sanitized
\* data_source, "_", the sanitized data_source_type, "_" and a suffix of
\* exactly 36 characters without "-": the result starts with the sanitized
\* prefix and is 37 characters longer than it
C19_StagingId ==
    \A p \in Procs :
        (pc[p] = "done" /\ call[p].op = "get_staging_dataset_id") =>
          /\ result[p].kind = "returned"
          /\ \E n1 \in 0 .. Len(call[p].data_source) :
             \E n2 \in 0 .. Len(call[p].data_source_type) :
               LET id == result[p].value
                   s1 == SubSeq(id, 9, 8 + n1)
                   s2 == SubSeq(id, 10 + n1, 9 + n1 + n2)
                   suffix == SubSeq(id, 11 + n1 + n2, Len(id))
               IN  /\ SubSeq(id, 1, 8) = "staging_"
                   /\ Sanitized(s1, call[p].data_source)
                   /\ SubSeq(id, 9 + n1, 9 + n1) = "_"
                   /\ Sanitized(s2, call[p].data_source_type)
                   /\ SubSeq(id, 10 + n1 + n2, 10 + n1 + n2) = "_"
                   /\ Len(suffix) = 36
                   /\ "-" \notin Chars(suffix)
                   /\ Len(id) = Len("staging_" \o s1 \o "_" \o s2) + 37

\* the identifier of ("a!b", "c?d")
C19_Witness ==
    \E p \in Procs :
        /\ pc[p] = "done"
        /\ call[p] = StagingCall("a!b", "c?d")
        /\ result[p].kind = "returned"
        /\ SubSeq(result[p].value, 1, 16) = "staging_a_b_c_d_"
        /\ Len(result[p].value) = 16 + 36

\* the last 36 characters of an identifier
SuffixOf(id) == SubSeq(id, Len(id) - 35, Len(id))
\* both processes hold the result of the same call
SameCall(p, q) == p # q /\ pc[p] = "done" /\ pc[q] = "done" /\ call[p] = call[q]

AttemptsOf(c) ==
    IF c.max_attempts - c.attempt + 1 < 1 THEN 1 ELSE c.max_attempts - c.attempt + 1
Failed(es) == \A i \in 1 .. Len(es) : ~es[i].ok

\* C21: get_mysql_connection and get_mssql_connection never raise and never
\* make more than max_attempts - attempt + 1 (and at least one) connect
\* attempts; when every attempt failed they have made exactly that many and
\* return None; when an attempt succeeded it is the last one made and its
\* connection is returned
C21_ConnectRetry ==
    \A p \in Procs :
        call[p].op \in ConnectOps =>
            /\ Len(events[p]) <= AttemptsOf(call[p])
            /\ pc[p] = "connect" => Failed(events[p])
            /\ pc[p] = "done" =>
                 /\ result[p].kind = "returned"
                 /\ Len(events[p]) >= 1
                 /\ Failed(SubSeq(events[p], 1, Len(events[p]) - 1))
                 /\ IF events[p][Len(events[p])].ok
                    THEN result[p].value = [connection |-> "open"]
                    ELSE /\ result[p].value = None
                         /\ Len(events[p]) = AttemptsOf(call[p])

\* a call with the default attempt = 1 that gave up after max_attempts
\* failed attempts
C21_Witness ==
    \E p \in Procs :
        /\ pc[p] = "done"
        /\ call[p] = ConnectCall("get_mysql_connection", 1, MaxAttempts)
        /\ result[p] = Returned(None)
        /\ Len(events[p]) = MaxAttempts
        /\ Failed(events[p])

\* the names of the calls made, in order
NamesOf(es) == [i \in 1 .. Len(es) |-> es[i].name]
\* the places of the calls named n
PlacesOf(es, n) == {i \in 1 .. Len(es) : es[i].name = n}
TheFetch(op) == IF op = "get_last_row_id" THEN "fetchone" ELSE "fetchall"

\* C22: in get_new_rows, get_rows_with_ids and get_last_row_id of both
\* modules the cursor is closed at most once, only after execute was called,
\* and exactly once when the call has returned; a call in which nothing
\* failed made the calls cursor, execute, fetch, close, and a call whose
\* execute raised the database error made cursor, execute, close, raised
\* nothing and returned None
C22_CursorClosed ==
    \A p \in Procs :
        call[p].op \in RowOps =>
          LET es == events[p] IN
            /\ Cardinality(PlacesOf(es, "close")) <= 1
            /\ \A i \in PlacesOf(es, "close") : \E j \in PlacesOf(es, "execute") : j < i
            /\ pc[p] = "done" =>
                 /\ Cardinality(PlacesOf(es, "close")) = 1
                 /\ es[Len(es)].name = "close"
                 /\ result[p].kind = "returned"
                 /\ (\A i \in 1 .. Len(es) : es[i].ok) =>
                       /\ NamesOf(es) = <<"cursor", "execute", TheFetch(call[p].op), "close">>
                       /\ result[p].value # [py |-> "None"]
                 /\ ~es[2].ok =>
                       /\ NamesOf(es) = <<"cursor", "execute", "close">>
                       /\ result[p].value = [py |-> "None"]

\* a get_last_row_id of the mssql module whose execute failed
C22_Witness ==
    \E p \in Procs :
        /\ pc[p] = "done"
        /\ call[p] = CursorCall("mssql", "get_last_row_id")
        /\ events[p] = <<Event("cursor", TRUE), Event("execute", FALSE), Event("close", TRUE)>>
        /\ result[p] = Returned(None)

\* ------------------------------------------------- more metadata claims
\* C23: in every interleaving of update_metadata, update_custom_metadata and
\* remove_yesterday_metdata calls on one document, each write leaves as the
\* document exactly the merge its writer computed from the document it had
\* read, with nothing of what was stored in between; the document is
\* therefore the merge of the writer that wrote last
C23_LastWriterWins ==
    [][\A p \in Procs :
         (pc[p] = "upload" /\ pc'[p] = "done") =>
            /\ \E t \in 1 .. now : metadata[p] = Merged(call[p], fetched[p], t)
            /\ store'[KeyOf(call[p])] = Blob(JsonDumps(metadata[p]))
            /\ uploads'[Len(uploads')] = p]_vars

\* a removal and an update with custom values that both read the same stored
\* document; the removal wrote first, and the document left is the update's
\* merge, with the yesterday fields the removal had deleted
C23_Witness ==
    \E p, q \in Procs :
        /\ p # q /\ pc[p] = "done" /\ pc[q] = "done"
        /\ call[p].op = "remove_yesterday_metdata"
        /\ call[q].op = "update_custom_metadata"
        /\ <<call[p].format, call[p].market>> = <<call[q].format, call[q].market>>
        /\ Len(uploads) >= 2
        /\ uploads[Len(uploads) - 1] = p /\ uploads[Len(uploads)] = q
        /\ fetched[p] = fetched[q] /\ fetched[p] # None
        /\ Stored(q) = Blob(JsonDumps(metadata[q]))
        /\ metadata[p] # metadata[q]
        /\ "yesterday_prefix" \in DOMAIN WindowOf(DocOf(Stored(q)), call[q].format,
                                                  call[q].market)

\* the call started with no document, or with the document {}
StartsEmpty(blob) == blob = Absent \/ (IsDocument(blob) /\ DocOf(blob) = EmptyDict)
\* the document the call of p persists when it starts from {}
FromEmpty(p, doc) == \E t \in hist[p].started .. now : doc = Merged(call[p], EmptyDict, t)

\* C24 as claimed: update_metadata and remove_yesterday_metdata, run where
\* there is no document, leave the document they leave when run on the
\* document {}
C24_AbsentAsEmpty ==
    \A p \in Procs :
        (pc[p] = "done" /\ hist[p].alone
            /\ call[p].op \in {"update_metadata", "remove_yesterday_metdata"}
            /\ StartsEmpty(hist[p].before)) =>
        /\ IsDocument(Stored(p))
        /\ FromEmpty(p, DocOf(Stored(p)))

\* C24 amended: update_metadata (and update_custom_metadata) run where there
\* is no document leaves the document it leaves when run on {};
\* remove_yesterday_metdata does not: on {} it persists a document with the
\* empty window, and where there is no document it persists nothing
C24_AbsentAsEmptyForUpdates ==
    \A p \in Procs :
        (pc[p] = "done" /\ hist[p].alone /\ StartsEmpty(hist[p].before)) =>
            /\ call[p].op \in Updates =>
                 IsDocument(Stored(p)) /\ FromEmpty(p, DocOf(Stored(p)))
            /\ call[p].op = "remove_yesterday_metdata" =>
                 IF hist[p].before = Absent
                 THEN Stored(p) = Absent
                 ELSE IsDocument(Stored(p)) /\ FromEmpty(p, DocOf(Stored(p)))

\* a removal on the document {} that left a document with the empty window
C24_Witness ==
    \E p \in Procs :
        /\ FinishedAlone(p, "remove_yesterday_metdata")
        /\ IsDocument(hist[p].before) /\ DocOf(hist[p].before) = EmptyDict
        /\ IsDocument(Stored(p))
        /\ HasWindow(DocOf(Stored(p)), call[p].format, call[p].market)

\* --------------------------------------------------- more naming claims
\* the six time components of a get_prefix result, with the argument each
\* was made from and its width
TimeParts(c, name) ==
    LET segs == SplitAtSlash(name, "") IN
    { [seg |-> segs[4], val |-> c.year, width |-> 4],
      [seg |-> segs[5], val |-> c.month, width |-> 2],
      [seg |-> segs[6], val |-> c.day, width |-> 2],
      [seg |-> segs[7], val |-> c.hour, width |-> 2],
      [seg |-> segs[8], val |-> c.minute, width |-> 2],
      [seg |-> segs[9], val |-> c.second, width |-> 2] }

\* C25 as claimed: in every get_prefix result each of year, month, day, hour,
\* minute and second is the placeholder "_" or has exactly its width, 4 for
\* year and 2 for the others
C25_FixedWidth ==
    \A p \in Procs :
        (pc[p] = "done" /\ call[p].op = "get_prefix") =>
            \A part \in TimeParts(call[p], result[p].value) :
                part.seg = "_" \/ Len(part.seg) = part.width

\* C25 amended: each time component is the placeholder "_" or has at least
\* its width: exactly its width when the argument is not longer than that,
\* and the length of the argument, which is emitted as it is, when it is
C25_AtLeastWidth ==
    \A p \in Procs :
        (pc[p] = "done" /\ call[p].op = "get_prefix") =>
            \A part \in TimeParts(call[p], result[p].value) :
                \/ part.seg = "_" /\ part.val = "_"
                \/ /\ part.val # "_"
                   /\ Len(part.val) <= part.width => Len(part.seg) = part.width
                   /\ Len(part.val) > part.width => part.seg = part.val

\* a year of five digits and a month of three, emitted as they are
C25_Witness ==
    \E p \in Procs :
        /\ pc[p] = "done"
        /\ call[p] = PrefixCall("gfk", "matched_report", "csv", "_", "20180", "123", "31",
                                "_", "_", "_")
        /\ result[p] = Returned("gfk/matched_report/_/20180/123/31/_/_/_/csv/")

\* the identity tuple of a call that names an ingestion or a modeling bucket
Identity(c) ==
    IF c.op = "get_ingestion_bucket_name"
    THEN <<c.project_id, c.org_name, c.group_name>>
    ELSE <<c.project_id, c.org_name, c.group_name, c.repo_name>>

\* the two tuples differ in some field after lower-casing
DifferentIdentity(s, t) ==
    \/ Len(s) # Len(t)
    \/ \E i \in 1 .. Len(s) : ~SameIgnoringCase(s[i], t[i])

\* C26 as claimed: two identity tuples that differ in some field after
\* lower-casing, a 3-field ingestion tuple against a 4-field modeling tuple
\* included, never get the same bucket name
C26_DistinctTuplesDistinctNames ==
    \A p, q \in Procs :
        (/\ pc[p] = "done" /\ call[p].op \in HashedOps
         /\ pc[q] = "done" /\ call[q].op \in HashedOps
         /\ DifferentIdentity(Identity(call[p]), Identity(call[q])))
            => result[p].value # result[q].value

\* --------------------------------------------------- more metadata claims
\* the pair the call of p names
PairOf(c) == <<c.data_source, c.data_source_type>>

\* C27 as claimed: a writer called for one pair leaves the persisted document
\* of every different pair unchanged, whatever strings the pairs are made of
C27_OtherPairsUnchanged ==
    [][\A p \in Procs :
          (pc[p] = "upload" /\ pc'[p] = "done") =>
              \A pr \in SlashPairs :
                  pr # PairOf(call[p]) =>
                      store'[MetadataKey(pr[1], pr[2])] = store[MetadataKey(pr[1], pr[2])]]_vars

Writers == {"update_metadata", "update_custom_metadata", "remove_yesterday_metdata"}
PrefixKeys == {"prefix", "yesterday_prefix"}

\* what one call that did not overlap another leaves of the windows: the
\* windows of old are all in new, every window but the addressed one keeps its
\* prefix and its yesterday_prefix, and the addressed one has the call's
\* prefix under the key the call writes, no yesterday_prefix after a clear,
\* and its other prefix as before
KeepsUpdates(c, old, new) ==
    LET f == c.format
        m == c.market
        w0 == WindowOf(old, f, m)
        w1 == WindowOf(new, f, m)
    IN  /\ WindowsOf(old) \subseteq WindowsOf(new)
        /\ \A w \in WindowsOf(old) \ {<<f, m>>} :
              FieldsAgree(WindowOf(new, w[1], w[2]), WindowOf(old, w[1], w[2]), PrefixKeys)
        /\ IF c.op = "remove_yesterday_metdata"
           THEN /\ "yesterday_prefix" \notin DOMAIN w1
                /\ FieldsAgree(w1, w0, {"prefix"})
           ELSE /\ HasWindow(new, f, m)
                /\ IF c.yesterday
                   THEN /\ "yesterday_prefix" \in DOMAIN w1
                        /\ w1["yesterday_prefix"] = c.prefix
                        /\ FieldsAgree(w1, w0, {"prefix"})
                   ELSE /\ "prefix" \in DOMAIN w1
                        /\ w1["prefix"] = c.prefix
                        /\ FieldsAgree(w1, w0, {"yesterday_prefix"})

\* C28: when calls do not overlap no update is lost: each update,
\* update_with_custom_values and clear_yesterday call leaves every window of
\* the document in place with the prefix and yesterday_prefix it had, except
\* that the addressed window gets the call's prefix (yesterday_prefix when
\* is_yesterday) or loses its yesterday_prefix to a clear; so after any
\* sequence of such calls each window holds its most recent updates
C28_NoLostUpdate ==
    \A p \in Procs :
        (/\ pc[p] = "done" /\ hist[p].alone
         /\ call[p].op \in Writers
         /\ result[p] = Returned(None)) =>
            KeepsUpdates(call[p], StartOf(hist[p].before), StartOf(Stored(p)))

\* the earlier call of the run wrote "uk", this one writes "de" of the same
\* format, and both prefixes are in the document
C28_Witness ==
    \E p \in Procs :
        /\ pc[p] = "done" /\ hist[p].alone
        /\ call[p].op = "update_metadata" /\ ~call[p].yesterday
        /\ call[p].market = "de" /\ call[p].prefix = "p2"
        /\ result[p] = Returned(None)
        /\ LET old == StartOf(hist[p].before)
               new == StartOf(Stored(p))
           IN  /\ WindowsOf(old) = {<<"csv", "uk">>}
               /\ WindowOf(old, "csv", "uk") = [last_updated |-> 1, prefix |-> "p1"]
               /\ WindowOf(new, "csv", "uk") = [last_updated |-> 1, prefix |-> "p1"]
               /\ WindowOf(new, "csv", "de")["prefix"] = "p2"

\* the call of p addresses the window the call of q addresses
SameWindow(c, d) ==
    /\ KeyOf(c) = KeyOf(d)
    /\ <<c.format, c.market>> = <<d.format, d.market>>

\* p has completed a clear_yesterday of a window that had its yesterday keys,
\* and the only other call, if any, is an update of another window of the
\* same document
ClearedBeside(p, q) ==
    /\ p # q
    /\ pc[p] = "done"
    /\ call[p].op = "remove_yesterday_metdata"
    /\ result[p] = Returned(None)
    /\ fetched[p] # None
    /\ YesterdayKeys \subseteq
          DOMAIN WindowOf(fetched[p], call[p].format, call[p].market)
    /\ \E i \in 1 .. Len(uploads) : uploads[i] = p
    /\ \/ call[q].op = "none"
       \/ /\ call[q].op \in Updates
          /\ KeyOf(call[q]) = KeyOf(call[p])
          /\ ~SameWindow(call[p], call[q])

\* C29 as claimed: once a clear_yesterday of a window that had its yesterday
\* keys has completed, and no yesterday update of that window starts
\* afterwards, the persisted document has no yesterday key in that window,
\* even when an update of another window ran at the same time as the clear
C29_ClearSticks ==
    \A p, q \in Procs :
        ClearedBeside(p, q) =>
            /\ IsDocument(Stored(p))
            /\ DOMAIN WindowOf(DocOf(Stored(p)), call[p].format, call[p].market)
                  \cap YesterdayKeys = {}

\* C30: with the conventional marker location, mark_success leaves the
\* blob at every metadata key as it was, and an upload of update,
\* update_with_custom_values or clear_yesterday leaves every blob that is
\* not at a metadata key, the success markers among them, as it was
C30_MarkerApart ==
    [][\A p \in Procs :
          /\ (pc[p] = "mark" /\ pc'[p] = "done") =>
                \A pr \in MarkerPairs :
                    store'[MetadataKey(pr[1], pr[2])] = store[MetadataKey(pr[1], pr[2])]
          /\ (pc[p] = "upload" /\ pc'[p] = "done") =>
                \A l \in DOMAIN store \ MarkerKeys : store'[l] = store[l]]_vars

\* a run that updated the document of a pair and then marked its success:
\* both blobs are there, the document as the update left it
C30_Witness ==
    \E p \in Procs :
        /\ FinishedAlone(p, "mark_success")
        /\ call[p].success_file_location = "gfk/matched_report/_SUCCESS"
        /\ store["gfk/matched_report/_SUCCESS"] = Blob(Str(hist[p].started))
        /\ IsDocument(store["gfk/matched_report/metadata.json"])
        /\ WindowOf(DocOf(store["gfk/matched_report/metadata.json"]), "csv", "uk")
              = [last_updated |-> 1, prefix |-> "p1"]

====
